---- MODULE Spec2Model ----
(***************************************************************************)
(* Model of the YUV420 NV12 converter (yuv_nv12/converter.py) and reader   *)
(* (yuv_nv12/reader.py and src/yuv_nv12/reader.py).                        *)
(*                                                                         *)
(* numpy float32 values are modelled exactly as sign-magnitude fixed-point *)
(* numbers  I + F / 2^27 : every float32 value the two colour transforms   *)
(* produce is a multiple of 2^-27 (the smallest coefficient, 0.081312, has *)
(* an ulp of 2^-27 and every product  coefficient * integer  is at least   *)
(* that large), so each float32 operation is the exact operation followed  *)
(* by round-to-nearest-even to 24 significant bits (F32Round).             *)
(***************************************************************************)
EXTENDS Integers, Sequences, FiniteSets, TLC

VARIABLES fs, res, nops, rd, wr

vars == <<fs, res, nops, rd, wr>>

----------------------------------------------------------------------------
(* Bounds of the model.                                                    *)

\* largest image width and height
MaxW == 4
MaxH == 4
\* number of intermediate channel levels of the colour inputs
MaxLevel == 6
\* number of calls in a run
MaxOps == 2
\* number of sample values above 0 in the planes of the resampling check
MaxSample == 1

----------------------------------------------------------------------------
(* float32 arithmetic.                                                     *)

\* one, in units of 2^-27
FracOne == 2^27
\* the fraction is split FracHigh * FracLow to multiply it within 32 bits
FracLow == 2^14
FracHigh == 2^13

RECURSIVE BitLen(_)
BitLen(n) == IF n = 0 THEN 0 ELSE 1 + BitLen(n \div 2)

F32(neg, I, F) == [neg |-> neg /\ (I > 0 \/ F > 0), I |-> I, F |-> F]

\* the unit in the last place of a float32 of magnitude I + F/2^27, in units
\* of 2^-27: 2^(e - 23 + 27) for the binary exponent e of the magnitude
Ulp(I, F) ==
    IF I > 0 THEN 2^(BitLen(I) + 3)
    ELSE IF F >= 2^24 THEN 2^(BitLen(F) - 24)
    ELSE 1

\* F rounded to a multiple of q, ties to the even multiple
RoundFrac(F, q) ==
    LET rem == F % q
    IN  IF 2 * rem > q \/ (2 * rem = q /\ (F \div q) % 2 = 1)
        THEN F - rem + q
        ELSE F - rem

\* the float32 of magnitude I + F/2^27, F <= 2^27 a multiple of the ulp
F32Carry(neg, I, F) ==
    IF F = FracOne THEN F32(neg, I + 1, 0) ELSE F32(neg, I, F)

\* round the exact magnitude I + F/2^27 to the nearest float32, ties to even
F32Round(neg, I, F) == F32Carry(neg, I, RoundFrac(F, Ulp(I, F)))

F32FromInt(n) == F32(n < 0, IF n < 0 THEN -n ELSE n, 0)

F32Neg(x) == F32(~x.neg, x.I, x.F)

\* the product (I + F/2^27) * a of a magnitude and an integer 0 <= a < 2^8,
\* as <<integer part, fraction>>; lowp and s are the partial products
MulParts(I, F, a) ==
    LET lowp == (F % FracLow) * a
        s    == (F \div FracLow) * a + (lowp \div FracLow)
    IN  <<I * a + (s \div FracHigh), (s % FracHigh) * FracLow + (lowp % FracLow)>>

\* the exact magnitude m = <<integer part, fraction>>, rounded
F32RoundParts(neg, m) == F32Round(neg, m[1], m[2])

\* float32 product of the float32 coefficient c and the integer-valued n
F32MulInt(c, n) ==
    F32RoundParts((c.neg /\ n > 0) \/ (~c.neg /\ n < 0),
                  MulParts(c.I, c.F, IF n < 0 THEN -n ELSE n))

MagLess(x, y) == x.I < y.I \/ (x.I = y.I /\ x.F < y.F)

\* big - small for magnitudes big >= small, rounded
F32Diff(big, small) ==
    IF big.F >= small.F
    THEN F32Round(big.neg, big.I - small.I, big.F - small.F)
    ELSE F32Round(big.neg, big.I - small.I - 1, big.F + FracOne - small.F)

\* float32 sum x + y
F32Add(x, y) ==
    IF x.neg = y.neg
    THEN IF x.F + y.F >= FracOne
         THEN F32Round(x.neg, x.I + y.I + 1, x.F + y.F - FracOne)
         ELSE F32Round(x.neg, x.I + y.I, x.F + y.F)
    ELSE IF MagLess(x, y) THEN F32Diff(y, x) ELSE F32Diff(x, y)

F32Sub(x, y) == F32Add(x, F32Neg(y))

\* x < n for an integer n >= 0
F32LessInt(x, n) == (x.neg /\ n >= 0) \/ (~x.neg /\ x.I < n)
\* x > n for an integer n >= 0
F32GreaterInt(x, n) == ~x.neg /\ (x.I > n \/ (x.I = n /\ x.F > 0))

\* np.clip(x, lo, hi) on a float32 value with integer limits 0 <= lo <= hi
clip(x, lo, hi) ==
    IF F32LessInt(x, lo) THEN F32FromInt(lo)
    ELSE IF F32GreaterInt(x, hi) THEN F32FromInt(hi)
    ELSE x

\* ndarray.astype(np.uint8) of a float32: truncate toward zero, keep the low byte
\* astype(np.uint8) rounding to the nearest integer instead of truncating
astype_uint8_round(x) ==
    (IF x.neg THEN -(x.I + (IF 2 * x.F >= FracOne THEN 1 ELSE 0))
     ELSE x.I + (IF 2 * x.F >= FracOne THEN 1 ELSE 0)) % 256

astype_uint8(x) == (IF x.neg THEN -x.I ELSE x.I) % 256

----------------------------------------------------------------------------
(* BT.601 coefficients as float32 values, in units of 2^-27.               *)

K_0_299    == 40131100
K_0_587    == 78785808
K_0_114    == 15300821
K_0_168736 == 22647362
K_0_331264 == 44461500
K_0_5      == 67108864
K_0_418688 == 56195352
K_0_081312 == 10913512
K_1_402    == 188173248
K_0_344136 == 46189152
K_0_714136 == 95849712
K_1_772    == 237833808

Coef(k) == F32(FALSE, k \div FracOne, k % FracOne)

----------------------------------------------------------------------------
(* Colour transforms, per sample.                                          *)

\* the float32 values of Y, U, V before clipping
rgb_to_yuv_raw(r, g, b) ==
    << F32Add(F32Add(F32MulInt(Coef(K_0_299), r),
                     F32MulInt(Coef(K_0_587), g)),
              F32MulInt(Coef(K_0_114), b)),
       F32Add(F32Add(F32Sub(F32MulInt(F32Neg(Coef(K_0_168736)), r),
                            F32MulInt(Coef(K_0_331264), g)),
                     F32MulInt(Coef(K_0_5), b)),
              F32FromInt(128)),
       F32Add(F32Sub(F32Sub(F32MulInt(Coef(K_0_5), r),
                            F32MulInt(Coef(K_0_418688), g)),
                     F32MulInt(Coef(K_0_081312), b)),
              F32FromInt(128)) >>

\* to_byte without np.clip: the cast alone
to_byte_wrap(x) == astype_uint8(x)

to_byte(x) == astype_uint8(clip(x, 0, 255))

\* np.clip(., 0, 255).astype(np.uint8) of the three channels
to_bytes(raw) == <<to_byte(raw[1]), to_byte(raw[2]), to_byte(raw[3])>>

rgb_to_yuv_bt601(r, g, b) == to_bytes(rgb_to_yuv_raw(r, g, b))

\* yuv_to_rgb_raw without the chroma offset of 128
yuv_to_rgb_raw_no_offset(Y, U, V) ==
    LET Yf == F32FromInt(Y)
    IN  << F32Add(Yf, F32MulInt(Coef(K_1_402), V)),
           F32Sub(F32Sub(Yf, F32MulInt(Coef(K_0_344136), U)),
                  F32MulInt(Coef(K_0_714136), V)),
           F32Add(Yf, F32MulInt(Coef(K_1_772), U)) >>

\* the float32 values of R, G, B before clipping
yuv_to_rgb_raw(Y, U, V) ==
    LET Yf == F32FromInt(Y)
        Ud == U - 128
        Vd == V - 128
    IN  << F32Add(Yf, F32MulInt(Coef(K_1_402), Vd)),
           F32Sub(F32Sub(Yf, F32MulInt(Coef(K_0_344136), Ud)),
                  F32MulInt(Coef(K_0_714136), Vd)),
           F32Add(Yf, F32MulInt(Coef(K_1_772), Ud)) >>

yuv_to_rgb_bt601(Y, U, V) == to_bytes(yuv_to_rgb_raw(Y, U, V))

----------------------------------------------------------------------------
(* Paths, files and images.                                                *)

\* a path is its stem and its extension, as os.path.splitext splits it
Paths == {[stem |-> "out", ext |-> ".yuv"], [stem |-> "out", ext |-> ".PNG"]}

splitext(path) == <<path.stem, path.ext>>

\* the path visualize_nv12 and the test save the decoded image to, the path
\* of the image the test creates, and every path of the model
SavePath == [stem |-> "out", ext |-> ".ppm"]
InputPath == [stem |-> "in", ext |-> ".ppm"]
AllPaths == Paths \cup {SavePath, InputPath}

\* str.lower() on the extensions of Paths
lower(s) == IF s = ".PNG" THEN ".png" ELSE s

ImageExts == {".jpg", ".jpeg", ".png", ".bmp", ".gif", ".tiff", ".webp"}

NoFile == [exists |-> FALSE, data |-> <<>>]
File(data) == [exists |-> TRUE, data |-> data]

NoImage == [w |-> 0, h |-> 0, px |-> <<>>]
NoPath == [stem |-> "", ext |-> ""]
NoSrc == [status |-> "none", img |-> NoImage]

\* the colours of the pixels of the images convert_to_nv12 is given
PatternColours == << <<255, 0, 0>>, <<0, 1, 12>>, <<30, 200, 90>> >>

\* an RGB image of w x h pixels, as img.convert('RGB') gives it: px[r][c] is
\* the pixel of row r, column c; here the colours run in diagonal stripes
PatternImage(w, h, a, b) ==
    [w |-> w, h |-> h,
     px |-> [r \in 1..h |-> [c \in 1..w |->
                PatternColours[((a * (r - 1) + b * (c - 1))
                                   % Len(PatternColours)) + 1]]]]

\* tests/test_converter.py: red, green, blue, yellow
colors == << <<255, 0, 0>>, <<0, 255, 0>>, <<0, 0, 255>>, <<255, 255, 0>> >>

\* the stripe that is drawn last over row y: stripe i < 3 covers the rows
\* i * stripe_height .. (i + 1) * stripe_height, stripe 3 the rows from
\* 3 * stripe_height on
stripe_of(y, stripe_height) ==
    IF y >= 3 * stripe_height THEN 3 ELSE y \div stripe_height

\* draw.text((20, 20), ...): where the text starts, and its colour
TextAt == 20
TextFill == <<255, 255, 255>>

\* the pixels <<x, y>> of a width x height image that the text can reach: it
\* is drawn from (TextAt, TextAt) to the right and downwards
TextArea(width, height) ==
    {<<x, y>> : x \in TextAt..width - 1, y \in TextAt..height - 1}

RGB == (0..255) \X (0..255) \X (0..255)

\* what draw.text leaves in the pixels of the text area: it depends on the
\* default font of the image library, which inks some pixels with TextFill,
\* blends some with it and leaves the others as they are
Rendered(width, height) == [TextArea(width, height) -> RGB]

\* the image of create_test_image(width, height): four horizontal stripes,
\* then the text, which is rendered as text
draw_test_image(width, height, text) ==
    [w |-> width, h |-> height,
     px |-> [r \in 1..height |-> [c \in 1..width |->
                IF <<c - 1, r - 1>> \in DOMAIN text
                THEN text[<<c - 1, r - 1>>]
                ELSE colors[stripe_of(r - 1, height \div 4) + 1]]]]

\* the sizes of the test images: the text area of each is empty
TestDims == {<<4, 4>>, <<2, 4>>, <<3, 2>>}

\* the images create_test_image(width, height) can give
TestImagesOf(width, height) ==
    {draw_test_image(width, height, text) : text \in Rendered(width, height)}

TestImages == UNION {TestImagesOf(d[1], d[2]) : d \in TestDims}

SolidImage(w, h, colour) ==
    [w |-> w, h |-> h, px |-> [r \in 1..h |-> [c \in 1..w |-> colour]]]

\* the input images: diagonal stripes of every size, and the test images
Images == {PatternImage(w, h, 1, 2) : w \in 1..MaxW, h \in 1..MaxH}
            \cup TestImages

\* the channel values of the solid-colour images
Levels == {0, 1, 12, 255} \cup {(37 * k) % 256 : k \in 1..MaxLevel}

Colours == Levels \X Levels \X Levels

SolidDims == {<<2, 2>>, <<4, 4>>}

SolidImages == {SolidImage(d[1], d[2], c) : d \in SolidDims, c \in Colours}

\* what Image.open(image_path) gives: an image, IOError, or another exception
Sources == {[status |-> "ok", img |-> im] : im \in Images}
             \cup {[status |-> "ioerror", img |-> NoImage],
                   [status |-> "error", img |-> NoImage]}

\* contents of files that some other program wrote
ExtByte(k) == (53 * k + 7) % 256
ExtData(n) == [k \in 1..n |-> ExtByte(k)]

----------------------------------------------------------------------------
(* numpy array helpers: a plane is a sequence of rows.                     *)

RECURSIVE Flatten(_)
\* ndarray.tofile / row-major order of a 2-D array
Flatten(plane) ==
    IF plane = <<>> THEN <<>> ELSE Head(plane) \o Flatten(Tail(plane))

RECURSIVE EveryOther(_)
\* seq[0::2]
EveryOther(seq) ==
    IF seq = <<>> THEN <<>>
    ELSE IF Len(seq) = 1 THEN seq
    ELSE <<Head(seq)>> \o EveryOther(Tail(Tail(seq)))

\* seq[1::2]
EveryOtherOdd(seq) == IF seq = <<>> THEN <<>> ELSE EveryOther(Tail(seq))

RECURSIVE Repeat2(_)
\* np.repeat(seq, 2)
Repeat2(seq) ==
    IF seq = <<>> THEN <<>> ELSE <<Head(seq), Head(seq)>> \o Repeat2(Tail(seq))

RECURSIVE Zip2(_, _)
\* row with row[0::2] = u and row[1::2] = v
Zip2(u, v) ==
    IF u = <<>> THEN <<>> ELSE <<Head(u), Head(v)>> \o Zip2(Tail(u), Tail(v))

\* an array with every element computed: the function f on 1..n as a tuple
array(f) == f \o <<>>

\* ndarray.reshape((rows, cols)) of a flat buffer
reshape(data, rows, cols) ==
    array([i \in 1..rows |-> SubSeq(data, (i - 1) * cols + 1, i * cols)])

----------------------------------------------------------------------------
(* The encoder: yuv_nv12/converter.py.                                     *)

\* TRUE when validate_dimensions returns, FALSE when it raises DimensionError
validate_dimensions(width, height) == ~(width % 2 /= 0 \/ height % 2 /= 0)

\* subsample as the mean of each 2x2 block
subsample_mean(plane) ==
    array([i \in 1..(Len(plane) \div 2) |-> array([j \in 1..(Len(plane[1]) \div 2) |->
        (plane[2*i - 1][2*j - 1] + plane[2*i - 1][2*j]
           + plane[2*i][2*j - 1] + plane[2*i][2*j]) \div 4])])

\* plane[1::2, 1::2]: the bottom-right sample of each block
subsample_odd(plane) ==
    LET rows == EveryOtherOdd(plane)
    IN  array([i \in 1..Len(rows) |-> EveryOtherOdd(rows[i])])

\* plane[::2, ::2]
subsample(plane) ==
    LET rows == EveryOther(plane)
    IN  array([i \in 1..Len(rows) |-> EveryOther(rows[i])])

\* interleave_uv with V before U
interleave_uv_vu(U_sub, V_sub, uv_height, uv_width) ==
    [i \in 1..uv_height |-> Zip2(SubSeq(V_sub[i], 1, uv_width),
                                 SubSeq(U_sub[i], 1, uv_width))]

\* interleave_uv with rows of uv_width bytes: the U samples only
interleave_uv_u_only(U_sub, V_sub, uv_height, uv_width) ==
    [i \in 1..uv_height |-> SubSeq(U_sub[i], 1, uv_width)]

\* the (uv_height, uv_width * 2) array with [:, 0::2] = U_sub, [:, 1::2] = V_sub
interleave_uv(U_sub, V_sub, uv_height, uv_width) ==
    [i \in 1..uv_height |-> Zip2(SubSeq(U_sub[i], 1, uv_width),
                                 SubSeq(V_sub[i], 1, uv_width))]

\* open(path, 'wb'): create the file, or truncate it
open_wb(files, path) == [files EXCEPT ![path] = File(<<>>)]

\* array.tofile(f): append the array in row-major order
tofile(files, path, plane) ==
    [files EXCEPT ![path] = File(files[path].data \o Flatten(plane))]

\* the planes <<Y, U, V>> of an h x w array of (Y, U, V) triples
channels(yuv, h, w) ==
    [k \in 1..3 |-> array([r \in 1..h |-> array([c \in 1..w |-> yuv[r][c][k]])])]

\* rgb_to_yuv_bt601 on the R, G, B planes of the image, element-wise
yuv_planes(img) ==
    channels(array([r \in 1..img.h |-> array([c \in 1..img.w |->
                 rgb_to_yuv_bt601(img.px[r][c][1], img.px[r][c][2], img.px[r][c][3])])]),
             img.h, img.w)

\* uv_interleaved.tofile(f), U_sub and V_sub being the subsampled planes
write_uv(files, output_path, planes, uv_height, uv_width) ==
    tofile(files, output_path,
           interleave_uv(subsample(planes[2]), subsample(planes[3]),
                         uv_height, uv_width))

\* the with-block of convert_to_nv12: Y plane, then the interleaved UV plane
write_planes(files, output_path, planes, uv_height, uv_width) ==
    write_uv(tofile(open_wb(files, output_path), output_path, planes[1]),
             output_path, planes, uv_height, uv_width)

\* the conversion and the writing of convert_to_nv12
write_nv12(files, output_path, img) ==
    write_planes(files, output_path, yuv_planes(img), img.h \div 2, img.w \div 2)

Outcome(op, path, w, h, src) ==
    [op |-> op, path |-> path, w |-> w, h |-> h, src |-> src,
     exc |-> "", kind |-> "", expected |-> 0, actual |-> 0,
     img |-> NoImage, ret |-> <<0, 0>>, args |-> <<0, 0, 0>>, out |-> <<0, 0, 0>>]

Raise(o, exc, kind) == [o EXCEPT !.exc = exc, !.kind = kind]

\* convert_to_nv12 opening the output file before it validates the dimensions
convert_to_nv12_open_first(src, output_path, files) ==
    LET o == Outcome("convert", output_path, 0, 0, src)
    IN  IF src.status = "ioerror"
        THEN [fs |-> files, res |-> Raise(o, "IOError", "not_found")]
        ELSE IF src.status /= "ok"
        THEN [fs |-> files, res |-> Raise(o, "ValueError", "load_failed")]
        ELSE IF ~validate_dimensions(src.img.w, src.img.h)
        THEN [fs |-> open_wb(files, output_path),
              res |-> Raise(o, "DimensionError", "dimension")]
        ELSE [fs |-> write_nv12(files, output_path, src.img),
              res |-> [o EXCEPT !.ret = <<src.img.w, src.img.h>>]]

\* convert_to_nv12(image_path, output_path), src being what image_path loads as
convert_to_nv12(src, output_path, files) ==
    LET o == Outcome("convert", output_path, 0, 0, src)
    IN  IF src.status = "ioerror"
        THEN [fs |-> files, res |-> Raise(o, "IOError", "not_found")]
        ELSE IF src.status /= "ok"
        THEN [fs |-> files, res |-> Raise(o, "ValueError", "load_failed")]
        ELSE IF ~validate_dimensions(src.img.w, src.img.h)
        THEN [fs |-> files, res |-> Raise(o, "DimensionError", "dimension")]
        ELSE [fs |-> write_nv12(files, output_path, src.img),
              res |-> [o EXCEPT !.ret = <<src.img.w, src.img.h>>]]

\* the file a with-block leaves when the file takes limit bytes and no more:
\* data is what the two tofile calls write one after the other
write_refused(files, output_path, data, limit) ==
    [files EXCEPT ![output_path] = File(SubSeq(data, 1, limit))]

\* convert_to_nv12 when the output file takes limit bytes and no more (the
\* disk is full, the device fails). With limit below the size of the buffer
\* the tofile call that reaches the limit writes what fits and raises:
\* Y.tofile when limit is below the size of the Y plane, uv_interleaved.tofile
\* otherwise. The with-block closes the file and the exception propagates;
\* nothing removes or restores the file.
convert_write_fails(src, output_path, files, limit) ==
    IF src.status = "ok" /\ validate_dimensions(src.img.w, src.img.h)
          /\ 2 * limit < 3 * src.img.w * src.img.h
    THEN [fs  |-> write_refused(files, output_path,
                                write_nv12(files, output_path, src.img)[output_path].data,
                                limit),
          res |-> Raise(Outcome("convert", output_path, 0, 0, src),
                        "IOError", "write_failed")]
    ELSE convert_to_nv12(src, output_path, files)

----------------------------------------------------------------------------
(* The decoder: yuv_nv12/reader.py and src/yuv_nv12/reader.py.             *)

\* upsample by tiling the plane 2 x 2 (np.tile) instead of repeating samples
upsample_tiled(plane) ==
    LET rows == plane \o plane
    IN  array([i \in 1..Len(rows) |-> rows[i] \o rows[i]])

\* np.repeat(np.repeat(plane, 2, axis=0), 2, axis=1)
upsample(plane) ==
    LET rows == Repeat2(plane)
    IN  array([i \in 1..Len(rows) |-> Repeat2(rows[i])])

\* f.read(n) at offset pos
fread(data, pos, n) ==
    SubSeq(data, pos + 1, IF pos + n < Len(data) THEN pos + n ELSE Len(data))

\* the size of the buffer of the file object open(yuv_path, 'rb') returns
BufferSize == 4096

\* the end of BufferedReader.read: the buffer is filled with chunk, the bytes
\* the file holds from pos on (at most BufferSize), and the rest bytes still
\* asked for are taken from it
buffered_fill(got, chunk, rest, pos) ==
    [out |-> got \o SubSeq(chunk, 1, IF rest < Len(chunk) THEN rest ELSE Len(chunk)),
     buf |-> SubSeq(chunk, (IF rest < Len(chunk) THEN rest ELSE Len(chunk)) + 1,
                    Len(chunk)),
     pos |-> pos + Len(chunk)]

\* BufferedReader.read past the buffered bytes: whole is what the file gave
\* for the whole blocks that are read without the buffer, direct their size,
\* rest the size of the last block, which is read through the buffer
buffered_direct(got, whole, direct, rest, data, pos) ==
    IF Len(whole) < direct \/ rest = 0
    THEN [out |-> got \o whole, buf |-> <<>>, pos |-> pos + Len(whole)]
    ELSE buffered_fill(got \o whole, fread(data, pos + direct, BufferSize),
                       rest, pos + direct)

\* f.read(n) of a file opened 'rb': buf is what the file object has read
\* ahead, pos its position in the file, data the bytes the file holds now.
\* out is what the call returns; buf and pos are the file object afterwards
buffered_read(buf, pos, data, n) ==
    IF n <= Len(buf)
    THEN [out |-> SubSeq(buf, 1, n), buf |-> SubSeq(buf, n + 1, Len(buf)),
          pos |-> pos]
    ELSE buffered_direct(buf,
                         fread(data, pos, (n - Len(buf)) - ((n - Len(buf)) % BufferSize)),
                         (n - Len(buf)) - ((n - Len(buf)) % BufferSize),
                         (n - Len(buf)) % BufferSize, data, pos)

\* np.frombuffer(buf, dtype=np.uint8).reshape((rows, cols)) padding a short
\* buffer with zeros instead of raising
frombuffer_reshape_pad(buf, rows, cols) ==
    [ok |-> TRUE,
     plane |-> reshape(buf \o [k \in 1..(rows * cols - Len(buf)) |-> 0], rows, cols)]

\* np.frombuffer(buf, dtype=np.uint8).reshape((rows, cols)): reshape raises
\* ValueError (ok is FALSE) unless the buffer has rows * cols bytes
frombuffer_reshape(buf, rows, cols) ==
    [ok |-> Len(buf) = rows * cols,
     plane |-> IF Len(buf) = rows * cols THEN reshape(buf, rows, cols) ELSE <<>>]

\* yuv_to_rgb_bt601 on the full-resolution planes, stacked into an image
stack_rgb(Y, U, V, width, height) ==
    [w |-> width, h |-> height,
     px |-> [r \in 1..height |-> [c \in 1..width |->
               yuv_to_rgb_bt601(Y[r][c], U[r][c], V[r][c])]]]

\* uv_data[:, 0::2]
deinterleave_u(uv_data) ==
    array([i \in 1..Len(uv_data) |-> EveryOther(uv_data[i])])

\* V_sub taken from the even-indexed bytes, as U_sub is
deinterleave_v_even(uv_data) ==
    array([i \in 1..Len(uv_data) |-> EveryOther(uv_data[i])])

\* uv_data[:, 1::2]
deinterleave_v(uv_data) ==
    array([i \in 1..Len(uv_data) |-> EveryOtherOdd(uv_data[i])])

\* de-interleave the UV plane, upsample U and V, convert to RGB
decode_planes(Y, uv_data, width, height) ==
    stack_rgb(Y, upsample(deinterleave_u(uv_data)),
              upsample(deinterleave_v(uv_data)), width, height)

\* the Y plane read_nv12 reads from a file of the expected size
read_y(data, width, height) ==
    reshape(fread(data, 0, width * height), height, width)

\* the interleaved UV plane read_nv12 reads from a file of the expected size
read_uv(data, width, height) ==
    reshape(fread(data, width * height, (width \div 2) * (height \div 2) * 2),
            height \div 2, (width \div 2) * 2)

\* the part of read_nv12 after the size check: read the Y plane and the UV
\* plane, then decode them
decode_nv12(data, width, height) ==
    decode_planes(read_y(data, width, height), read_uv(data, width, height),
                  width, height)

\* int(width * height * 1.5)
expected_size(width, height) == (width * height * 3) \div 2

\* read_checked rejecting only files shorter than expected
read_checked_short_only(o, missing, yuv_path, width, height, files) ==
    IF width % 2 /= 0 \/ height % 2 /= 0
    THEN Raise(o, "ValueError", "dimension")
    ELSE IF ~files[yuv_path].exists
    THEN Raise(o, missing, "not_found")
    ELSE IF Len(files[yuv_path].data) < expected_size(width, height)
    THEN [Raise(o, "ValueError", "size_mismatch")
            EXCEPT !.expected = expected_size(width, height),
                   !.actual = Len(files[yuv_path].data)]
    ELSE [o EXCEPT !.img = decode_nv12(files[yuv_path].data, width, height)]

\* read_checked without the os.path.exists check: a missing file counts as
\* a file of length 0
read_checked_no_exists(o, missing, yuv_path, width, height, files) ==
    IF width % 2 /= 0 \/ height % 2 /= 0
    THEN Raise(o, "ValueError", "dimension")
    ELSE IF Len(files[yuv_path].data) /= expected_size(width, height)
    THEN [Raise(o, "ValueError", "size_mismatch")
            EXCEPT !.expected = expected_size(width, height),
                   !.actual = Len(files[yuv_path].data)]
    ELSE [o EXCEPT !.img = decode_nv12(files[yuv_path].data, width, height)]

\* read_nv12 from the dimension check on; missing is the exception raised for
\* a file that does not exist
read_checked(o, missing, yuv_path, width, height, files) ==
    IF width % 2 /= 0 \/ height % 2 /= 0
    THEN Raise(o, "ValueError", "dimension")
    ELSE IF ~files[yuv_path].exists
    THEN Raise(o, missing, "not_found")
    ELSE IF Len(files[yuv_path].data) /= expected_size(width, height)
    THEN [Raise(o, "ValueError", "size_mismatch")
            EXCEPT !.expected = expected_size(width, height),
                   !.actual = Len(files[yuv_path].data)]
    ELSE [o EXCEPT !.img = decode_nv12(files[yuv_path].data, width, height)]

\* yuv_nv12/reader.py
read_nv12(yuv_path, width, height, files) ==
    LET o        == Outcome("read", yuv_path, width, height, NoSrc)
        file_ext == lower(splitext(yuv_path)[2])
    IN  IF file_ext \in ImageExts
        THEN Raise(o, "ValueError", "image_ext")
        ELSE read_checked(o, "IOError", yuv_path, width, height, files)

\* src/yuv_nv12/reader.py
read_nv12_src(yuv_path, width, height, files) ==
    read_checked(Outcome("read_src", yuv_path, width, height, NoSrc),
                 "FileNotFoundError", yuv_path, width, height, files)

RECURSIVE decimal(_)
\* the ASCII digits of n
decimal(n) ==
    IF n < 10 THEN <<48 + n>> ELSE decimal(n \div 10) \o <<48 + (n % 10)>>

\* the bytes of an RGB image in a .ppm file: "P6\n", "<w> <h>\n", "255\n",
\* then the pixels row by row
ppm_bytes(img) ==
    <<80, 54, 10>> \o decimal(img.w) \o <<32>> \o decimal(img.h) \o <<10>>
        \o <<50, 53, 53, 10>> \o Flatten(Flatten(img.px))

\* img.save(output_path) under a path whose extension is .ppm
save(files, output_path, img) ==
    [files EXCEPT ![output_path] = File(ppm_bytes(img))]

\* visualize_nv12 after its call of read_nv12 ended as o: an exception of
\* read_nv12 is the exception of the call; else the image is saved if
\* output_path is given, shown if show is set (a failure to show it is
\* caught), and returned
visualize(o, output_path, show, files) ==
    IF o.exc /= ""
    THEN [fs |-> files, res |-> o]
    ELSE [fs |-> IF output_path /= NoPath
                 THEN save(files, output_path, o.img)
                 ELSE files,
          res |-> o]

\* yuv_nv12/reader.py
visualize_nv12(yuv_path, width, height, output_path, show, files) ==
    visualize([read_nv12(yuv_path, width, height, files)
                 EXCEPT !.op = "visualize"],
              output_path, show, files)

\* src/yuv_nv12/reader.py
visualize_nv12_src(yuv_path, width, height, output_path, show, files) ==
    visualize([read_nv12_src(yuv_path, width, height, files)
                 EXCEPT !.op = "visualize_src"],
              output_path, show, files)

----------------------------------------------------------------------------
(* The state machine: a file system, and the outcome of the last call.     *)

\* rd is a read_nv12 call that runs step by step, wr a convert_to_nv12 call
\* that runs step by step; both are idle when every call is one step.
\* ahead and pos are the file object f: the bytes it has read ahead, and its
\* position in the file
RdIdle == [pc |-> "idle", path |-> NoPath, w |-> 0, h |-> 0,
           ybuf |-> <<>>, uvbuf |-> <<>>, ylen |-> 0, uvlen |-> 0,
           ahead |-> <<>>, pos |-> 0]
WrIdle == [pc |-> "idle", path |-> NoPath, img |-> NoImage]

Init ==
    /\ fs = [p \in AllPaths |-> NoFile]
    /\ res = Outcome("none", NoPath, 0, 0, NoSrc)
    /\ nops = 0
    /\ rd = RdIdle
    /\ wr = WrIdle

\* a finished call: r.fs is the file system it leaves, r.res its outcome
Return(r) ==
    fs' = r.fs /\ res' = r.res /\ nops' = nops + 1 /\ UNCHANGED <<rd, wr>>

Convert(src, out) ==
    /\ nops < MaxOps
    /\ Return(convert_to_nv12(src, out, fs))

Read(p, w, h) ==
    /\ nops < MaxOps
    /\ res' = read_nv12(p, w, h, fs)
    /\ nops' = nops + 1
    /\ UNCHANGED <<fs, rd, wr>>

ReadSrc(p, w, h) ==
    /\ nops < MaxOps
    /\ res' = read_nv12_src(p, w, h, fs)
    /\ nops' = nops + 1
    /\ UNCHANGED <<fs, rd, wr>>

\* the lengths of the files other programs write: empty, and one byte short
\* of, equal to and one byte over the length of a 2 x 2 frame
ExtLens == {0} \cup {expected_size(2, 2) + d : d \in -1..1}

\* another program writes a file of n bytes
PutFile(p, n) ==
    /\ nops < MaxOps
    /\ fs' = [fs EXCEPT ![p] = File(ExtData(n))]
    /\ res' = Outcome("put", p, 0, 0, NoSrc)
    /\ nops' = nops + 1
    /\ UNCHANGED <<rd, wr>>

\* another program removes a file
RemoveFile(p) ==
    /\ nops < MaxOps
    /\ fs[p].exists
    /\ fs' = [fs EXCEPT ![p] = NoFile]
    /\ res' = Outcome("remove", p, 0, 0, NoSrc)
    /\ nops' = nops + 1
    /\ UNCHANGED <<rd, wr>>

\* the output_path arguments of visualize_nv12: None, or the path to save to
OutputPaths == {NoPath, SavePath}

\* the <<width, height>> arguments of visualize_nv12: the sizes of two frames,
\* and an odd width
ShownDims == {<<2, 2>>, <<4, 4>>, <<3, 2>>}

Visualize(p, w, h, out, show) ==
    /\ nops < MaxOps
    /\ Return(visualize_nv12(p, w, h, out, show, fs))

VisualizeSrc(p, w, h, out, show) ==
    /\ nops < MaxOps
    /\ Return(visualize_nv12_src(p, w, h, out, show, fs))

Next ==
    \/ \E src \in Sources, out \in Paths : Convert(src, out)
    \/ \E p \in Paths, w \in 1..MaxW, h \in 1..MaxH : Read(p, w, h)
    \/ \E p \in Paths, w \in 1..MaxW, h \in 1..MaxH : ReadSrc(p, w, h)
    \/ \E p \in Paths, d \in ShownDims, out \in OutputPaths, show \in BOOLEAN :
          Visualize(p, d[1], d[2], out, show)
    \/ \E p \in Paths, d \in ShownDims, out \in OutputPaths, show \in BOOLEAN :
          VisualizeSrc(p, d[1], d[2], out, show)
    \/ \E p \in Paths, n \in ExtLens : PutFile(p, n)
    \/ \E p \in Paths : RemoveFile(p)

Spec == Init /\ [][Next]_vars

----------------------------------------------------------------------------
(* The round trip of tests/test_converter.py on solid-colour images:       *)
(* create the image file, convert it, compare the size of the output with  *)
(* the expected size, read the output back, save the image read. The two   *)
(* image files are written as .ppm files.                                  *)

\* create_test_image(width, height, filename): the image is drawn and saved
\* under filename, which the test then converts
create_test_image(width, height, filename, text, files) ==
    [fs  |-> save(files, filename, draw_test_image(width, height, text)),
     res |-> Outcome("create", filename, width, height,
                     [status |-> "ok",
                      img |-> draw_test_image(width, height, text)])]

\* test_img = create_test_image(width, height, filename)
TestCreate(width, height, text) ==
    /\ res.op = "none"
    /\ fs' = create_test_image(width, height, InputPath, text, fs).fs
    /\ res' = create_test_image(width, height, InputPath, text, fs).res
    /\ UNCHANGED <<nops, rd, wr>>

\* Image.new('RGB', size), then img.save(filename), with a colour
SolidCreate(im) ==
    /\ res.op = "none"
    /\ fs' = save(fs, InputPath, im)
    /\ res' = Outcome("create", InputPath, im.w, im.h, [status |-> "ok", img |-> im])
    /\ UNCHANGED <<nops, rd, wr>>

\* convert_to_nv12(test_img, yuv_file)
SolidConvert(out) ==
    /\ res.op = "create"
    /\ Convert(res.src, out)

\* the test goes on when the size of the file is the expected size:
\* read_nv12(yuv_file, width, height)
SolidRead ==
    /\ res.op = "convert"
    /\ res.exc = ""
    /\ Len(fs[res.path].data) = expected_size(res.ret[1], res.ret[2])
    /\ Read(res.path, res.ret[1], res.ret[2])

\* img.save(restored_file)
SolidSave ==
    /\ res.op = "read"
    /\ res.exc = ""
    /\ fs' = save(fs, SavePath, res.img)
    /\ res' = [res EXCEPT !.op = "save"]
    /\ UNCHANGED <<nops, rd, wr>>

NextSolid ==
    \/ \E d \in TestDims : \E text \in Rendered(d[1], d[2]) :
          TestCreate(d[1], d[2], text)
    \/ \E im \in SolidImages : SolidCreate(im)
    \/ \E out \in Paths : SolidConvert(out)
    \/ SolidRead
    \/ SolidSave

SpecSolid == Init /\ [][NextSolid]_vars

----------------------------------------------------------------------------
(* convert_to_nv12 with failing writes, on a path that may hold a file.    *)

\* the numbers of bytes the output file takes: from none to a whole frame of
\* the largest size
WriteLimits == 0..((MaxW * MaxH * 3) \div 2)

FaultPut(p, n) ==
    /\ res.op = "none"
    /\ PutFile(p, n)

FaultConvert(src, out, limit) ==
    /\ res.op \in {"none", "put"}
    /\ nops < MaxOps
    /\ Return(convert_write_fails(src, out, fs, limit))

NextFault ==
    \/ \E p \in Paths, n \in ExtLens : FaultPut(p, n)
    \/ \E src \in Sources, out \in Paths, limit \in WriteLimits :
          FaultConvert(src, out, limit)

SpecFault == Init /\ [][NextFault]_vars

----------------------------------------------------------------------------
(* read_nv12 step by step, next to a writer of the same files: a           *)
(* convert_to_nv12 that runs step by step, or a program that truncates or  *)
(* appends. Nothing unlinks a file here, so a read that goes to the file   *)
(* sees the bytes the path holds when it runs; a read that the file        *)
(* object's buffer can serve sees the bytes read ahead by an earlier read. *)

\* the checks of read_nv12 (reader.py:64-91) are done; o is the result of the
\* call when nothing changes the file: they passed exactly when it returns
RdChecked(o) ==
    /\ rd' = [RdIdle EXCEPT !.pc = IF o.exc = "" THEN "checked" ELSE "done",
                            !.path = o.path, !.w = o.w, !.h = o.h]
    /\ res' = IF o.exc = "" THEN Outcome("reading", o.path, o.w, o.h, NoSrc) ELSE o
    /\ UNCHANGED <<fs, nops, wr>>

RdCheck(p, w, h) ==
    /\ rd.pc = "idle"
    /\ RdChecked(read_nv12(p, w, h, fs))

\* the outcome of a read_nv12 whose reshape raised
ReshapeError == Raise(Outcome("read", rd.path, rd.w, rd.h, NoSrc),
                      "ValueError", "reshape")

\* f.read(y_size) ended as r; reshape((height, width))
RdGotY(r) ==
    /\ rd' = [rd EXCEPT !.pc = IF frombuffer_reshape(r.out, rd.h, rd.w).ok
                                THEN "y_read" ELSE "done",
                        !.ybuf = r.out,
                        !.ylen = Len(fs[rd.path].data),
                        !.ahead = r.buf,
                        !.pos = r.pos]
    /\ res' = IF frombuffer_reshape(r.out, rd.h, rd.w).ok THEN res ELSE ReshapeError
    /\ UNCHANGED <<fs, nops, wr>>

\* open(yuv_path, 'rb'), then f.read(y_size)
RdReadY ==
    /\ rd.pc = "checked"
    /\ RdGotY(buffered_read(<<>>, 0, fs[rd.path].data, rd.w * rd.h))

\* f.read(uv_size) ended as r; reshape((uv_height, uv_width * 2)), then the
\* rest of read_nv12
RdGotUV(r, Y, uv) ==
    /\ rd' = [rd EXCEPT !.pc = "done",
                        !.uvbuf = r.out,
                        !.uvlen = Len(fs[rd.path].data),
                        !.ahead = r.buf,
                        !.pos = r.pos]
    /\ res' = IF uv.ok
              THEN [Outcome("read", rd.path, rd.w, rd.h, NoSrc)
                      EXCEPT !.img = decode_planes(Y.plane, uv.plane, rd.w, rd.h)]
              ELSE ReshapeError
    /\ UNCHANGED <<fs, nops, wr>>

\* the UV plane f.read(uv_size) ended with
RdParseUV(r) ==
    RdGotUV(r, frombuffer_reshape(rd.ybuf, rd.h, rd.w),
            frombuffer_reshape(r.out, rd.h \div 2, (rd.w \div 2) * 2))

RdReadUV ==
    /\ rd.pc = "y_read"
    /\ RdParseUV(buffered_read(rd.ahead, rd.pos, fs[rd.path].data,
                               (rd.w \div 2) * (rd.h \div 2) * 2))

\* open(output_path, 'wb') of a convert_to_nv12 whose image is valid
WrOpen(im, out) ==
    /\ wr.pc = "idle"
    /\ validate_dimensions(im.w, im.h)
    /\ fs' = open_wb(fs, out)
    /\ wr' = [pc |-> "opened", path |-> out, img |-> im]
    /\ UNCHANGED <<res, nops, rd>>

\* Y.tofile(f)
WrWriteY ==
    /\ wr.pc = "opened"
    /\ fs' = tofile(fs, wr.path, yuv_planes(wr.img)[1])
    /\ wr' = [wr EXCEPT !.pc = "y_written"]
    /\ UNCHANGED <<res, nops, rd>>

\* uv_interleaved.tofile(f)
WrWriteUV ==
    /\ wr.pc = "y_written"
    /\ fs' = write_uv(fs, wr.path, yuv_planes(wr.img),
                      wr.img.h \div 2, wr.img.w \div 2)
    /\ wr' = [wr EXCEPT !.pc = "done"]
    /\ UNCHANGED <<res, nops, rd>>

\* a file is there before the calls start
RacePut(p, n) ==
    /\ rd.pc = "idle"
    /\ wr.pc = "idle"
    /\ PutFile(p, n)

\* another program cuts the last byte off a file
RaceTruncate(p) ==
    /\ nops < MaxOps
    /\ wr.pc \in {"idle", "done"}
    /\ fs[p].exists
    /\ Len(fs[p].data) > 0
    /\ fs' = [fs EXCEPT ![p] = File(SubSeq(fs[p].data, 1, Len(fs[p].data) - 1))]
    /\ nops' = nops + 1
    /\ UNCHANGED <<res, rd, wr>>

\* another program appends a byte to a file
RaceAppend(p) ==
    /\ nops < MaxOps
    /\ wr.pc \in {"idle", "done"}
    /\ fs[p].exists
    /\ fs' = [fs EXCEPT ![p] = File(fs[p].data \o <<ExtByte(Len(fs[p].data) + 1)>>)]
    /\ nops' = nops + 1
    /\ UNCHANGED <<res, rd, wr>>

NextRace ==
    \/ \E p \in Paths, w \in 1..MaxW, h \in 1..MaxH : RdCheck(p, w, h)
    \/ RdReadY
    \/ RdReadUV
    \/ \E im \in Images, out \in Paths : WrOpen(im, out)
    \/ WrWriteY
    \/ WrWriteUV
    \/ \E p \in Paths, n \in ExtLens : RacePut(p, n)
    \/ \E p \in Paths : RaceTruncate(p)
    \/ \E p \in Paths : RaceAppend(p)

SpecRace == Init /\ [][NextRace]_vars

----------------------------------------------------------------------------
(* The colour transforms on their own.                                     *)

\* the arguments of a call: three bytes
InitColour ==
    /\ fs = [p \in AllPaths |-> NoFile]
    /\ res \in {[Outcome("input", NoPath, 0, 0, NoSrc) EXCEPT !.args = c] :
                  c \in Colours}
    /\ nops = 0
    /\ rd = RdIdle
    /\ wr = WrIdle

ApplyRgbToYuv ==
    /\ res.op = "input"
    /\ res' = [Outcome("rgb_to_yuv", NoPath, 0, 0, NoSrc)
                 EXCEPT !.args = res.args,
                        !.out = rgb_to_yuv_bt601(res.args[1], res.args[2], res.args[3])]
    /\ UNCHANGED <<fs, nops, rd, wr>>

ApplyYuvToRgb ==
    /\ res.op = "input"
    /\ res' = [Outcome("yuv_to_rgb", NoPath, 0, 0, NoSrc)
                 EXCEPT !.args = res.args,
                        !.out = yuv_to_rgb_bt601(res.args[1], res.args[2], res.args[3])]
    /\ UNCHANGED <<fs, nops, rd, wr>>

NextColour == ApplyRgbToYuv \/ ApplyYuvToRgb

SpecColour == InitColour /\ [][NextColour]_vars

----------------------------------------------------------------------------
(* Subsampling then upsampling, on byte planes of even size.               *)

Samples == {(85 * k) % 256 : k \in 0..MaxSample}

\* (width, height) of the planes
PlaneDims == {<<2, 2>>, <<4, 2>>, <<2, 4>>}

\* the w x h planes, each as the input of a call
PlaneInputs(w, h) ==
    {[Outcome("plane", NoPath, w, h, NoSrc)
        EXCEPT !.img = [w |-> w, h |-> h, px |-> P]] :
     P \in [1..h -> [1..w -> Samples]]}

InitPlane ==
    /\ fs = [p \in AllPaths |-> NoFile]
    /\ res \in UNION {PlaneInputs(d[1], d[2]) : d \in PlaneDims}
    /\ nops = 0
    /\ rd = RdIdle
    /\ wr = WrIdle

\* U_sub = U[::2, ::2] in the encoder, then np.repeat on both axes in the
\* decoder
ApplySubUp ==
    /\ res.op = "plane"
    /\ res' = [Outcome("sub_up", NoPath, res.w, res.h,
                       [status |-> "plane", img |-> res.img])
                 EXCEPT !.img = [w |-> res.w, h |-> res.h,
                                 px |-> upsample(subsample(array(res.img.px)))]]
    /\ UNCHANGED <<fs, nops, rd, wr>>

NextPlane == ApplySubUp

SpecPlane == InitPlane /\ [][NextPlane]_vars

----------------------------------------------------------------------------
(* Properties.                                                             *)

IsOdd(n) == n % 2 = 1
OddSized(img) == IsOdd(img.w) \/ IsOdd(img.h)
Abs(n) == IF n < 0 THEN -n ELSE n
Data(p) == fs[p].data

\* the byte of a buffer at a 0-based offset
ByteAt(data, k) == data[k + 1]

\* some 2x2 block of the plane whose top-left sample differs from the block mean
HasUnevenBlock(plane, w, h) ==
    \E i \in 0..(h \div 2) - 1, j \in 0..(w \div 2) - 1 :
        (plane[2*i + 1][2*j + 1] + plane[2*i + 1][2*j + 2]
           + plane[2*i + 2][2*j + 1] + plane[2*i + 2][2*j + 2]) \div 4
        /= plane[2*i + 1][2*j + 1]

\* C1: convert_to_nv12 on an image of odd width or height fails with
\* DimensionError, and the failed call leaves every file as it was: no output
\* file is created and an existing output file keeps its bytes.
C1_OddEncodeFailsCleanly ==
    [][(res'.op = "convert" /\ res'.src.status = "ok" /\ OddSized(res'.src.img))
         => (res'.exc = "DimensionError" /\ res'.ret = <<0, 0>> /\ fs' = fs)]_vars

C1_Witness ==
    /\ res.op = "convert"
    /\ res.exc = "DimensionError"
    /\ OddSized(res.src.img)
    /\ fs[res.path].exists
    /\ Len(Data(res.path)) > 0
    /\ \E p \in Paths : ~fs[p].exists

\* C2 as claimed: read_nv12 on a source whose length differs from W*H*3/2
\* always fails with the size-mismatch error, reporting expected and actual.
C2_Original ==
    (res.op = "read" /\ fs[res.path].exists
       /\ 2 * Len(Data(res.path)) /= 3 * res.w * res.h)
    => /\ res.kind = "size_mismatch"
       /\ res.actual = Len(Data(res.path))
       /\ 2 * res.expected = 3 * res.w * res.h

\* C2 amended: read_nv12 on a source whose length differs from W*H*3/2 never
\* returns an image; with even W and H and a path that has no image extension
\* it fails with the size-mismatch error, which reports the expected W*H*3/2
\* and the actual length; with odd W or H it fails with the dimension error,
\* and a path with an image extension is rejected by the extension check.
C2_SizeMismatch ==
    (res.op \in {"read", "read_src"} /\ fs[res.path].exists
       /\ 2 * Len(Data(res.path)) /= 3 * res.w * res.h)
    => /\ res.exc = "ValueError"
       /\ res.img = NoImage
       /\ IF res.op = "read" /\ lower(res.path.ext) \in ImageExts
          THEN res.kind = "image_ext"
          ELSE IF IsOdd(res.w) \/ IsOdd(res.h)
          THEN res.kind = "dimension"
          ELSE /\ res.kind = "size_mismatch"
               /\ res.actual = Len(Data(res.path))
               /\ 2 * res.expected = 3 * res.w * res.h

C2_Witness ==
    /\ res.op = "read"
    /\ res.kind = "size_mismatch"
    /\ res.actual = Len(Data(res.path))
    /\ res.actual > res.expected
    /\ res.expected = 6

\* C3: a successful convert_to_nv12 returns the image's (W, H), both even, and
\* leaves an output file of exactly W*H*3/2 bytes: W*H luma bytes and
\* (W/2)*(H/2)*2 chroma bytes.
C3_OutputLength ==
    (res.op = "convert" /\ res.exc = "")
    => /\ res.ret = <<res.src.img.w, res.src.img.h>>
       /\ ~OddSized(res.src.img)
       /\ fs[res.path].exists
       /\ 2 * Len(Data(res.path)) = 3 * res.ret[1] * res.ret[2]
       /\ Len(Data(res.path))
            = res.ret[1] * res.ret[2] + (res.ret[1] \div 2) * (res.ret[2] \div 2) * 2

C3_Witness ==
    /\ res.op = "convert"
    /\ res.exc = ""
    /\ res.ret = <<4, 4>>
    /\ Len(Data(res.path)) = 24

\* C4 as claimed: after a successful convert_to_nv12, read_nv12 on the output
\* path with the returned (W, H) succeeds with a W x H image, whatever the
\* output path is.
C4_RoundTripSucceeds ==
    [][(res.op = "convert" /\ res.exc = "" /\ res'.op = "read"
          /\ res'.path = res.path /\ res'.w = res.ret[1] /\ res'.h = res.ret[2])
         => (res'.exc = "" /\ res'.img.w = res.ret[1] /\ res'.img.h = res.ret[2])]_vars

\* data is the Y plane in row-major order, then the rows of U_sub and V_sub
\* interleaved, U first
LayoutIs(data, W, H, Y, U_sub, V_sub) ==
    /\ \A r \in 0..H - 1, c \in 0..W - 1 :
          ByteAt(data, r * W + c) = Y[r + 1][c + 1]
    /\ \A i \in 0..(H \div 2) - 1, j \in 0..(W \div 2) - 1 :
          /\ ByteAt(data, W * H + i * W + 2 * j) = U_sub[i + 1][j + 1]
          /\ ByteAt(data, W * H + i * W + 2 * j + 1) = V_sub[i + 1][j + 1]

PlanesLayoutIs(data, W, H, planes) ==
    LayoutIs(data, W, H, planes[1], subsample(planes[2]), subsample(planes[3]))

\* C5: the bytes convert_to_nv12 writes are the Y plane in row-major order,
\* then for each row i of the half-resolution grid the samples U[i][j], V[i][j]
\* interleaved, U first: byte r*W+c is Y[r][c], byte W*H + i*W + 2j is
\* U_sub[i][j] and byte W*H + i*W + 2j + 1 is V_sub[i][j].
C5_Layout ==
    (res.op = "convert" /\ res.exc = "")
    => PlanesLayoutIs(Data(res.path), res.ret[1], res.ret[2],
                      yuv_planes(res.src.img))

C5_Witness ==
    /\ res.op = "convert"
    /\ res.exc = ""
    /\ res.ret = <<4, 4>>
    /\ LET data == Data(res.path)
       IN  /\ ByteAt(data, 16 + 4 + 2) /= ByteAt(data, 16 + 4 + 3)
           /\ ByteAt(data, 16 + 4) /= ByteAt(data, 16)
           /\ ByteAt(data, 16 + 2) /= ByteAt(data, 16)
           /\ ByteAt(data, 4) /= ByteAt(data, 0)

\* C6 as claimed: read_nv12 with an odd width or an odd height fails with the
\* dimension error for every source, without decoding anything.
C6_OddAlwaysDimensionError ==
    (res.op \in {"read", "read_src"} /\ (IsOdd(res.w) \/ IsOdd(res.h)))
    => (res.kind = "dimension" /\ res.img = NoImage)

\* the chroma bytes of data are the samples of U and V at the even rows and
\* columns
PointSampled(data, W, H, U, V) ==
    \A i \in 0..(H \div 2) - 1, j \in 0..(W \div 2) - 1 :
        /\ ByteAt(data, W * H + i * W + 2 * j) = U[2 * i + 1][2 * j + 1]
        /\ ByteAt(data, W * H + i * W + 2 * j + 1) = V[2 * i + 1][2 * j + 1]

PlanesPointSampled(data, W, H, planes) ==
    PointSampled(data, W, H, planes[2], planes[3])

\* C7: the encoder's chroma subsampling is point sampling: the chroma sample
\* written for (i, j) is the full-resolution U (and V) value at row 2i,
\* column 2j, whatever the other three samples of the 2x2 block are.
C7_PointSampling ==
    (res.op = "convert" /\ res.exc = "")
    => PlanesPointSampled(Data(res.path), res.ret[1], res.ret[2],
                          yuv_planes(res.src.img))

PlanesUneven(planes, W, H) ==
    HasUnevenBlock(planes[2], W, H) /\ HasUnevenBlock(planes[3], W, H)

C7_Witness ==
    /\ res.op = "convert"
    /\ res.exc = ""
    /\ res.ret = <<4, 4>>
    /\ PlanesUneven(yuv_planes(res.src.img), 4, 4)

\* the half-resolution chroma plane (k = 0 for U, 1 for V) in a buffer
ChromaOf(data, W, H, k) ==
    array([i \in 1..(H \div 2) |-> array([j \in 1..(W \div 2) |->
        ByteAt(data, W * H + (i - 1) * W + 2 * (j - 1) + k)])])

\* up is the W x H plane with P[r div 2][c div 2] at (r, c), and img is
\* yuv_to_rgb_bt601 of the luma bytes and the replicated chroma of P and Q
Replicated(data, W, H, P, Q, up, img) ==
    /\ Len(up) = H
    /\ \A r \in 0..H - 1 : Len(up[r + 1]) = W
    /\ \A r \in 0..H - 1, c \in 0..W - 1 :
          /\ up[r + 1][c + 1] = P[(r \div 2) + 1][(c \div 2) + 1]
          /\ img.px[r + 1][c + 1]
               = yuv_to_rgb_bt601(ByteAt(data, r * W + c),
                                  P[(r \div 2) + 1][(c \div 2) + 1],
                                  Q[(r \div 2) + 1][(c \div 2) + 1])

ChromaReplicated(data, W, H, P, Q, img) ==
    Replicated(data, W, H, P, Q, upsample(P), img)

\* C8: the decoder's chroma upsampling is nearest-neighbour replication: the
\* upsampled plane of a (W/2) x (H/2) plane P is W x H with value
\* P[r div 2][c div 2] at (r, c), and the decoded pixel (r, c) is
\* yuv_to_rgb_bt601 of Y[r][c], U[r div 2][c div 2], V[r div 2][c div 2].
C8_NearestNeighbour ==
    (res.op \in {"read", "read_src"} /\ res.exc = "")
    => ChromaReplicated(Data(res.path), res.w, res.h,
                        ChromaOf(Data(res.path), res.w, res.h, 0),
                        ChromaOf(Data(res.path), res.w, res.h, 1), res.img)

C8_Witness ==
    /\ res.op = "read"
    /\ res.exc = ""
    /\ res.w = 4
    /\ res.h = 4
    /\ LET P == ChromaOf(Data(res.path), 4, 4, 0)
       IN  Cardinality({P[1][1], P[1][2], P[2][1]}) = 3

IsSolid(img, colour) ==
    \A r \in 1..img.h, c \in 1..img.w : img.px[r][c] = colour

\* the decoded image is solid, and within tol per channel of the colour
SolidWithin(orig, img, tol) ==
    /\ img.w = orig.w
    /\ img.h = orig.h
    /\ IsSolid(img, img.px[1][1])
    /\ \A k \in 1..3 : Abs(img.px[1][1][k] - orig.px[1][1][k]) <= tol

SolidRoundTrip(tol) ==
    (res.op = "convert" /\ res.exc = "" /\ IsSolid(res.src.img, res.src.img.px[1][1])
       /\ res'.op = "read" /\ res'.exc = "" /\ res'.path = res.path
       /\ res'.w = res.ret[1] /\ res'.h = res.ret[2])
    => SolidWithin(res.src.img, res'.img, tol)

\* C9 as claimed: decode(encode(image)) of a solid-colour image of even
\* dimensions is a solid-colour image within 2 per channel of the original.
C9_Original == [][SolidRoundTrip(2)]_vars

\* C9 amended: decode(encode(image)) of a solid-colour image of even
\* dimensions is a solid-colour image within 3 per channel of the original.
C9_SolidWithin3 == [][SolidRoundTrip(3)]_vars

\* the colour (0, 1, 12) has been encoded and decoded: it comes back (0, 0, 9)
C9_Witness ==
    /\ res.op = "read"
    /\ res.exc = ""
    /\ SubSeq(Data(res.path), 4, 6) = rgb_to_yuv_bt601(0, 1, 12)
    /\ IsSolid(res.img, <<0, 0, 9>>)

\* the float32 value x saturated to [0, 255], then truncated to an integer
SatTrunc(x) ==
    IF x.neg THEN 0
    ELSE IF x.I >= 255 THEN 255
    ELSE x.I

\* out is the three values of raw, each saturated and truncated
IsSatTrunc(out, raw) ==
    \A k \in 1..3 : out[k] \in 0..255 /\ out[k] = SatTrunc(raw[k])

\* C10: every result of rgb_to_yuv_bt601 and of yuv_to_rgb_bt601 is a byte
\* equal to the (float32) BT.601 formula value saturated to [0, 255] and then
\* truncated: below 0 gives 0, above 255 gives 255, nothing wraps modulo 256.
C10_ClampBeforeCast ==
    /\ res.op = "rgb_to_yuv"
         => IsSatTrunc(res.out, rgb_to_yuv_raw(res.args[1], res.args[2], res.args[3]))
    /\ res.op = "yuv_to_rgb"
         => IsSatTrunc(res.out, yuv_to_rgb_raw(res.args[1], res.args[2], res.args[3]))

\* raw[1] is above 256 and raw[3] is below 0
OutOfRange(raw) ==
    F32GreaterInt(raw[1], 255) /\ raw[1].I > 256 /\ F32LessInt(raw[3], 0)

C10_Witness ==
    /\ res.op = "yuv_to_rgb"
    /\ OutOfRange(yuv_to_rgb_raw(res.args[1], res.args[2], res.args[3]))
    /\ res.out[1] = 255
    /\ res.out[3] = 0

\* the 4 x 4 image whose pixels are all (255, 0, 0), and its NV12 buffer
RedImage == SolidImage(4, 4, <<255, 0, 0>>)
RedBuffer == [k \in 1..16 |-> 76] \o <<84, 255, 84, 255, 84, 255, 84, 255>>

\* C11: encoding the 4x4 all-red image writes exactly 24 bytes, 16 Y bytes 76
\* then U=84, V=255 alternating; decoding those 24 bytes at 4x4 gives 16 equal
\* pixels within 2 per channel of (255, 0, 0).
C11_RedExample ==
    /\ (res.op = "convert" /\ res.exc = "" /\ res.src.img = RedImage)
         => (Len(Data(res.path)) = 24 /\ Data(res.path) = RedBuffer)
    /\ (res.op \in {"read", "read_src"} /\ res.exc = ""
           /\ res.w = 4 /\ res.h = 4 /\ Data(res.path) = RedBuffer)
         => SolidWithin(RedImage, res.img, 2)

\* the red buffer has been decoded: every pixel is (254, 0, 0)
C11_Witness ==
    /\ res.op = "read"
    /\ res.exc = ""
    /\ res.w = 4
    /\ res.h = 4
    /\ Data(res.path) = RedBuffer
    /\ IsSolid(res.img, <<254, 0, 0>>)

\* two calls end the same way: the same image, or the same error kind
SameOutcome(a, b) == a.exc = b.exc /\ a.kind = b.kind /\ a.img = b.img

\* C12 as claimed: the outcome of read_nv12 does not depend on the extension of
\* the path: a source with the same bytes under another path gives the same
\* image or the same error kind, and a source of exactly W*H*3/2 bytes with
\* even W, H decodes successfully under any extension.
C12_ExtensionIndependent ==
    (res.op = "read" /\ fs[res.path].exists)
    => /\ \A q \in Paths :
             fs[q] = fs[res.path]
             => SameOutcome(res, read_nv12(q, res.w, res.h, fs))
       /\ (~IsOdd(res.w) /\ ~IsOdd(res.h)
             /\ 2 * Len(Data(res.path)) = 3 * res.w * res.h)
          => (res.exc = "" /\ res.img.w = res.w /\ res.img.h = res.h)

C14_Original ==
    (res.op \in {"read", "read_src"} /\ ~fs[res.path].exists)
    => res.kind = "not_found"

\* C14 amended: read_nv12 on a path that does not exist always fails; with
\* even W and H and a path that has no image extension it fails with the
\* not-found error (IOError, or FileNotFoundError in src/yuv_nv12/reader.py);
\* with odd W or H it fails with the dimension error, and a path with an image
\* extension is rejected by the extension check.
C14_NotFound ==
    (res.op \in {"read", "read_src"} /\ ~fs[res.path].exists)
    => /\ res.exc /= ""
       /\ res.img = NoImage
       /\ IF res.op = "read" /\ lower(res.path.ext) \in ImageExts
          THEN res.kind = "image_ext"
          ELSE IF IsOdd(res.w) \/ IsOdd(res.h)
          THEN res.kind = "dimension"
          ELSE /\ res.kind = "not_found"
               /\ res.exc = (IF res.op = "read" THEN "IOError"
                              ELSE "FileNotFoundError")

\* a file that was there has been removed, then read with even dimensions
C14_Witness ==
    /\ res.op = "read"
    /\ res.kind = "not_found"
    /\ res.exc = "IOError"
    /\ res.w = 4
    /\ res.h = 2
    /\ nops = 2
    /\ ~fs[res.path].exists

\* C15 as claimed: a file written by encoding a W1 x H1 image is decoded
\* without error by read_nv12 given other even dimensions W2, H2 of the same
\* area, and the result is a W2 x H2 image.
C15_EqualAreaDecodes ==
    [][(res.op = "convert" /\ res.exc = "" /\ res'.op = "read"
          /\ res'.path = res.path
          /\ ~IsOdd(res'.w) /\ ~IsOdd(res'.h)
          /\ res'.w /= res.ret[1]
          /\ res'.w * res'.h = res.ret[1] * res.ret[2])
         => (res'.exc = "" /\ res'.img.w = res'.w /\ res'.img.h = res'.h)]_vars

\* the four samples of every aligned 2x2 block of the plane are equal
BlockConstant(P, w, h) ==
    \A r \in 1..h, c \in 1..w :
        P[r][c] = P[2 * ((r - 1) \div 2) + 1][2 * ((c - 1) \div 2) + 1]

\* C16: upsample(subsample(P)) is the W x H plane in which each 2x2 block is
\* filled with the block's top-left sample of P; it is P itself when P is
\* constant within each 2x2 block (and only then).
C16_SubsampleUpsample ==
    res.op = "sub_up"
    => LET P == res.src.img.px
           Q == res.img.px
       IN  /\ Len(Q) = res.h
           /\ \A r \in 1..res.h : Len(Q[r]) = res.w
           /\ \A r \in 1..res.h, c \in 1..res.w :
                 Q[r][c] = P[2 * ((r - 1) \div 2) + 1][2 * ((c - 1) \div 2) + 1]
           /\ BlockConstant(P, res.w, res.h) <=> (\A r \in 1..res.h : Q[r] = P[r])

\* a 4 x 2 plane of two different constant blocks has come back unchanged
C16_Witness ==
    /\ res.op = "sub_up"
    /\ res.w = 4
    /\ res.h = 2
    /\ BlockConstant(res.src.img.px, 4, 2)
    /\ res.src.img.px[1][1] /= res.src.img.px[1][3]
    /\ \A r \in 1..2 : res.img.px[r] = res.src.img.px[r]

\* a step-by-step read_nv12 has returned an image
RdReturned == rd.pc = "done" /\ res.op = "read" /\ res.exc = ""

\* C17 as claimed: read_nv12 returns an image only if it read the full
\* W*H*3/2 bytes of a file whose length was W*H*3/2 when it was read; a length
\* change after the size check is surfaced as a failure.
C17_Original ==
    RdReturned
    => /\ Len(rd.ybuf) + Len(rd.uvbuf) = expected_size(rd.w, rd.h)
       /\ rd.ylen = expected_size(rd.w, rd.h)
       /\ rd.uvlen = expected_size(rd.w, rd.h)

\* C17 amended: read_nv12 returns an image only if its two reads returned
\* the full W*H and W*H/2 bytes, and the image is decoded from those bytes; a
\* read that returns fewer bytes ends the call with ValueError and no image.
C17_NoShortReadSucceeds ==
    /\ RdReturned
         => /\ Len(rd.ybuf) = rd.w * rd.h
            /\ 2 * Len(rd.uvbuf) = rd.w * rd.h
            /\ res.img = decode_nv12(rd.ybuf \o rd.uvbuf, rd.w, rd.h)
    /\ (rd.pc = "done" /\ 2 * (Len(rd.ybuf) + Len(rd.uvbuf)) < 3 * rd.w * rd.h)
         => (res.exc /= "" /\ res.img = NoImage)
    /\ (rd.pc = "done" /\ rd.ylen > 0 /\ res.exc /= "")
         => (res.exc = "ValueError" /\ res.kind = "reshape")

\* the size check passed, then the file was cut: the Y plane was read in
\* full and the read of the UV plane came back short
C17_Witness ==
    /\ rd.pc = "done"
    /\ res.kind = "reshape"
    /\ Len(rd.ybuf) = rd.w * rd.h
    /\ Len(rd.uvbuf) > 0
    /\ 2 * Len(rd.uvbuf) < rd.w * rd.h
    /\ rd.ylen < expected_size(rd.w, rd.h)

\* Y, U_sub, V_sub are the planes of the NV12 buffer data: Y is H x W with
\* Y[r][c] = byte r*W+c, U_sub and V_sub are (H/2) x (W/2) with
\* U_sub[i][j] = byte W*H + i*W + 2j and V_sub[i][j] = byte W*H + i*W + 2j + 1
ParsedAs(data, W, H, Y, U_sub, V_sub) ==
    /\ Len(Y) = H
    /\ Len(U_sub) = H \div 2
    /\ Len(V_sub) = H \div 2
    /\ \A r \in 0..H - 1 :
          /\ Len(Y[r + 1]) = W
          /\ \A c \in 0..W - 1 : Y[r + 1][c + 1] = ByteAt(data, r * W + c)
    /\ \A i \in 0..(H \div 2) - 1 :
          /\ Len(U_sub[i + 1]) = W \div 2
          /\ Len(V_sub[i + 1]) = W \div 2
          /\ \A j \in 0..(W \div 2) - 1 :
                /\ U_sub[i + 1][j + 1] = ByteAt(data, W * H + i * W + 2 * j)
                /\ V_sub[i + 1][j + 1] = ByteAt(data, W * H + i * W + 2 * j + 1)

\* the planes read_nv12 parses from data, and the image it makes of them
ReaderParses(data, W, H, img) ==
    /\ ParsedAs(data, W, H, read_y(data, W, H),
                deinterleave_u(read_uv(data, W, H)),
                deinterleave_v(read_uv(data, W, H)))
    /\ img = stack_rgb(read_y(data, W, H),
                       upsample(deinterleave_u(read_uv(data, W, H))),
                       upsample(deinterleave_v(read_uv(data, W, H))), W, H)

\* the planes read_nv12 parses from data are the planes the encoder packed
ReaderRecovers(data, W, H, planes) ==
    /\ read_y(data, W, H) = planes[1]
    /\ deinterleave_u(read_uv(data, W, H)) = subsample(planes[2])
    /\ deinterleave_v(read_uv(data, W, H)) = subsample(planes[3])

\* C18: for every buffer of W*H*3/2 bytes that read_nv12 decodes, the planes
\* it parses are Y[r][c] = byte r*W+c, U_sub[i][j] = byte W*H + i*W + 2j and
\* V_sub[i][j] = byte W*H + i*W + 2j + 1, the chroma planes (W/2) x (H/2); and
\* parsing the bytes convert_to_nv12 wrote gives back exactly the Y plane and
\* the subsampled U and V planes the encoder packed.
C18_ParseInvertsPack ==
    /\ (res.op \in {"read", "read_src"} /\ res.exc = "")
         => ReaderParses(Data(res.path), res.w, res.h, res.img)
    /\ (res.op = "convert" /\ res.exc = "")
         => ReaderRecovers(Data(res.path), res.ret[1], res.ret[2],
                           yuv_planes(res.src.img))

\* a 4 x 4 image has been encoded: its U and V samples differ, and so do two
\* samples of each plane
C18_Witness ==
    /\ res.op = "convert"
    /\ res.exc = ""
    /\ res.ret = <<4, 4>>
    /\ ByteAt(Data(res.path), 16) /= ByteAt(Data(res.path), 17)
    /\ ByteAt(Data(res.path), 16) /= ByteAt(Data(res.path), 18)
    /\ ByteAt(Data(res.path), 17) /= ByteAt(Data(res.path), 19)
    /\ ByteAt(Data(res.path), 0) /= ByteAt(Data(res.path), 1)

====
